---- MODULE Spec2Model ----
(***************************************************************************)
(* Model of media_downloader.py: the checkpointed, batched import of a     *)
(* chat's media (main / begin_import / process_messages / download_media / *)
(* update_config) and the format filter _can_download.                     *)
(*                                                                         *)
(* One run of the program is main(): load config.yaml, begin_import, final *)
(* update_config.  asyncio is cooperative, so a coroutine runs atomically  *)
(* from one await to the next: every action below is one such segment.     *)
(***************************************************************************)
EXTENDS Integers, Sequences, FiniteSets, TLC

VARIABLES
    saved,                \* config.yaml on disk: last_read_message_id, ids_to_retry
    config,               \* the config dict in memory during a run
    FAILED_IDS,           \* module global, line 29
    DOWNLOADED_IDS,       \* module global, line 30
    last_read_message_id, \* local of begin_import, line 400
    messages_list,        \* local of begin_import, line 404
    pagination_count,     \* local of begin_import, line 405
    message,              \* loop variable of the async for, line 414
    next_id,              \* position of messages_iter in the chat history
    chat_top,             \* highest message id that exists in the chat
    pc,                   \* where main / begin_import stands
    tasks,                \* the download_media coroutines of the gathered batch
    run,                  \* number of runs of main() started so far
    all_normal,           \* history: every run so far ended normally
    start_cursor,         \* history: last_read_message_id loaded at run start
    start_retry,          \* history: set of ids_to_retry loaded at run start
    got_before,           \* history: ids earlier, completed runs downloaded and
                          \* did not record as failed
    dispatched,           \* history: id lists passed to process_messages this run
    writes,               \* history: update_config calls of this run
    faults,               \* environment: faults injected so far
    bound,                \* environment: the bounds this behaviour runs under
    cd_in,                \* arguments of a _can_download call
    cd_out                \* its result

vars == <<saved, config, FAILED_IDS, DOWNLOADED_IDS, last_read_message_id,
          messages_list, pagination_count, message, next_id, chat_top, pc,
          tasks, run, all_normal, start_cursor, start_retry, got_before,
          dispatched, writes, faults, bound, cd_in, cd_out>>

-----------------------------------------------------------------------------
(* Bounds of the model *)

\* message ids of the chat are 1..MaxId
MaxId == 3
\* runs of main() in one behaviour
MaxRuns == 3
\* faults of the environment in one behaviour: a transfer that does not
\* leave a file of min_size bytes or more, a re-fetch that finds the media
\* gone
MaxFaults == 2
\* message ids of the chat in the single-run specification
MaxStream == 5
\* faults of the environment in the single-run specification
StreamFaults == 1
\* the batch size passed by main (100 in the program), scaled down
pagination_limit == 2
\* length of the id lists update_config is called with on its own
MaxLen == 2
\* successive update_config calls on the same lists
MaxCalls == 3

(* Program constants *)

\* for retry in range(3)
MaxAttempts == 3
\* _is_valid_file(file_path, min_size=512)
min_size == 512

-----------------------------------------------------------------------------
(* Python values *)

\* the format None of a media object without a mime type
None == "None"

SeqToSet(s) == {s[i] : i \in DOMAIN s}

RECURSIVE SortedList(_)
\* list(set(...)) of small ints: the elements, each once, in ascending order
SortedList(S) ==
    IF S = {} THEN <<>>
    ELSE LET m == CHOOSE x \in S : \A y \in S : x <= y
         IN  <<m>> \o SortedList(S \ {m})

\* max(message_ids)
MaxOf(S) == CHOOSE x \in S : \A y \in S : y <= x

\* number of occurrences of x in list s
Count(s, x) == Cardinality({i \in DOMAIN s : s[i] = x})

-----------------------------------------------------------------------------
(* _can_download, lines 66-90.  The result is "True" or "False", or the    *)
(* name of the Python exception the call raises.                           *)

GovernedTypes == {"audio", "document", "video"}

_can_download(_type, file_formats, file_format) ==
    IF _type \in GovernedTypes
    THEN IF _type \notin DOMAIN file_formats
         THEN "KeyError"                       \* file_formats[_type]
         ELSE LET allowed_formats == file_formats[_type]
              IN  IF file_format \in SeqToSet(allowed_formats)
                  THEN "True"                  \* `and` short-circuits
                  ELSE IF allowed_formats = <<>>
                       THEN "IndexError"       \* allowed_formats[0]
                       ELSE IF allowed_formats[1] # "all"
                            THEN "False"
                            ELSE "True"
    ELSE "True"

-----------------------------------------------------------------------------
(* Messages and the configuration of a run *)

\* config["media_types"]
media_types == <<"audio", "photo">>

\* config["file_formats"]
file_formats == [audio |-> <<"mp3">>, document |-> <<"all">>, video |-> <<"all">>]

\* A message as the client returns it.  media: message.media is not None.
\* attrs: the media attributes that are not None (getattr(message, _type, None)).
NoAttrs == [k \in {} |-> <<>>]

Profiles ==
    { [media |-> FALSE, attrs |-> NoAttrs],
      [media |-> TRUE,  attrs |-> ("photo" :> [mime_type |-> <<>>])],
      [media |-> TRUE,  attrs |-> ("audio" :> [mime_type |-> <<"audio", "ogg">>])],
      [media |-> TRUE,  attrs |-> ("audio" :> [mime_type |-> <<"audio", "mp3">>]
                                   @@ "photo" :> [mime_type |-> <<>>])] }

Msg(id, p) == [id |-> id, media |-> p.media, attrs |-> p.attrs]

\* file_format of _get_media_meta, lines 203-208: mime_type.split("/")[-1]
\* (the mime type is held as its "/"-separated parts) or None
_get_media_meta(media_obj, _type) ==
    IF _type \in {"audio", "document", "video", "voice"}
    THEN media_obj.mime_type[Len(media_obj.mime_type)]
    ELSE None

\* _is_valid_file, lines 147-155, on the size os.path.getsize returns
_is_valid_file(file_size) ==
    IF file_size = 0 THEN FALSE
    ELSE IF file_size < min_size THEN TRUE
    ELSE TRUE

\* sizes of the file a transfer leaves behind
Sizes == {0, 511, 512}

\* what `await client.download_media(...)` does: return a path to a file of
\* some size, return no path, or raise
TransferResults ==
    { [k |-> "path", size |-> s] : s \in Sizes }
    \cup { [k |-> x, size |-> 0] : x \in {"nopath", "BadRequest", "TypeError", "Exception"} }

-----------------------------------------------------------------------------
(* download_media, lines 249-310.  A task is one call of the coroutine:    *)
(* message, retry and ti (position in media_types) are its locals, pc the  *)
(* await it is suspended at.  The other fields record what the call has   *)
(* done: tx transfers started, sleeps and refetches awaited, fails and dls *)
(* appends to FAILED_IDS and DOWNLOADED_IDS, last the result of its latest *)
(* transfer, file what became of the file that transfer left, zeroed       *)
(* whether it has deleted an empty file.  Each operator returns the task   *)
(* at its next await (or done) with the two global lists as it leaves them.*)

NoResult == [k |-> "none", size |-> 0]

NewTask(m) ==
    [message |-> m, pc |-> "start", retry |-> 0, ti |-> 0, tx |-> 0,
     sleeps |-> 0, refetches |-> 0, fails |-> 0, dls |-> 0, last |-> NoResult,
     file |-> "none", zeroed |-> FALSE]

Out(t, F, D) == [t |-> t, F |-> F, D |-> D]

\* a handler that treats any other error as the timeout signal
OnException_as_timeout(t, F, D) ==
    Out([t EXCEPT !.pc = "sleep", !.sleeps = @ + 1], F, D)

\* lines 302-309: except Exception: FAILED_IDS.append(message_id); break
OnException(t, F, D) ==
    Out([t EXCEPT !.pc = "done", !.fails = @ + 1], Append(F, t.message.id), D)

RECURSIVE ForTypes(_, _, _, _)
\* lines 255-263 and 285: the loop over media_types from position i up to
\* the next transfer, or `break` when the types are exhausted
ForTypes(t, i, F, D) ==
    IF i > Len(media_types)
    THEN Out([t EXCEPT !.pc = "done"], F, D)
    ELSE LET _type == media_types[i]
         IN  IF _type \notin DOMAIN t.message.attrs
             THEN ForTypes(t, i + 1, F, D)
             ELSE LET file_format == _get_media_meta(t.message.attrs[_type], _type)
                      can == _can_download(_type, file_formats, file_format)
                  IN  IF can = "True"
                      THEN Out([t EXCEPT !.pc = "transfer", !.ti = i, !.tx = @ + 1], F, D)
                      ELSE IF can = "False"
                           THEN ForTypes(t, i + 1, F, D)
                           ELSE OnException(t, F, D)

\* an attempt that treats a message without media as an error
Attempt_no_media_fails(t, F, D) ==
    IF ~t.message.media
    THEN OnException(t, F, D)
    ELSE ForTypes(t, 1, F, D)

\* lines 252-254: the top of one attempt
Attempt(t, F, D) ==
    IF ~t.message.media
    THEN Out([t EXCEPT !.pc = "done"], F, D)
    ELSE ForTypes(t, 1, F, D)

\* line 251: the next iteration of `for retry in range(3)`, or line 310
NextRetry(t, F, D) ==
    IF t.retry + 1 < MaxAttempts
    THEN Attempt([t EXCEPT !.retry = @ + 1], F, D)
    ELSE Out([t EXCEPT !.pc = "done"], F, D)

\* lines 263-286, 294: the transfer of media_types[t.ti] has ended with r
AfterTransfer(t0, r, F, D) ==
    LET t == [t0 EXCEPT !.last = r]
    IN  CASE r.k = "path" ->
               IF ~_is_valid_file(r.size)
               THEN \* os.remove, FAILED_IDS.append, continue
                    ForTypes([t EXCEPT !.file = "removed", !.zeroed = TRUE, !.fails = @ + 1],
                             t.ti + 1, Append(F, t.message.id), D)
               ELSE \* DOWNLOADED_IDS.append
                    ForTypes([t EXCEPT !.file = "kept", !.dls = @ + 1],
                             t.ti + 1, F, Append(D, t.message.id))
          [] r.k = "nopath" -> ForTypes(t, t.ti + 1, F, D)
          [] r.k = "BadRequest" -> Out([t EXCEPT !.pc = "refetch", !.refetches = @ + 1], F, D)
          [] r.k = "TypeError" -> Out([t EXCEPT !.pc = "sleep", !.sleeps = @ + 1], F, D)
          [] OTHER -> OnException(t, F, D)

\* lines 287-293: client.get_messages has returned the fresh message
AfterRefetch(t, fresh, F, D) ==
    LET u == [t EXCEPT !.message = fresh]
    IN  IF t.retry = 2
        THEN NextRetry([u EXCEPT !.fails = @ + 1], Append(F, t.message.id), D)
        ELSE NextRetry(u, F, D)

\* lines 295-301: asyncio.sleep(5) has returned
AfterSleep(t, F, D) ==
    IF t.retry = 2
    THEN NextRetry([t EXCEPT !.fails = @ + 1], Append(F, t.message.id), D)
    ELSE NextRetry(t, F, D)

-----------------------------------------------------------------------------
(* update_config, lines 53-58: the new dict, which is also what is written *)
(* to config.yaml.  list(set) is taken in ascending order.                 *)

\* update_config without the removal of the downloaded ids
update_config_keeps_downloaded(cfg, F, D) ==
    [cfg EXCEPT !.ids_to_retry = SortedList(SeqToSet(cfg.ids_to_retry)) \o F]

\* update_config that gives up the queued ids that failed again
update_config_drops_requeued(cfg, F, D) ==
    [cfg EXCEPT !.ids_to_retry =
        SortedList((SeqToSet(cfg.ids_to_retry) \ SeqToSet(D)) \ SeqToSet(F))
        \o SelectSeq(F, LAMBDA x : x \notin SeqToSet(cfg.ids_to_retry))]

update_config(cfg, F, D) ==
    [cfg EXCEPT !.ids_to_retry =
        SortedList(SeqToSet(cfg.ids_to_retry) \ SeqToSet(D)) \o F]

\* one entry of the history of update_config calls
Written(at, cfg, F, D) ==
    [at |-> at, cursor |-> cfg.last_read_message_id, retry |-> cfg.ids_to_retry,
     F |-> SeqToSet(F), D |-> SeqToSet(D)]

-----------------------------------------------------------------------------
(* process_messages, lines 340-348 *)

RECURSIVE Gather(_, _, _, _)
\* lines 340-345: asyncio.gather creates one download_media task per message;
\* the event loop runs each, in list order, up to its first await
Gather(messages, i, F, D) ==
    IF i > Len(messages)
    THEN [ts |-> <<>>, F |-> F, D |-> D]
    ELSE LET o == Attempt(NewTask(messages[i]), F, D)
             rest == Gather(messages, i + 1, o.F, o.D)
         IN  [ts |-> <<o.t>> \o rest.ts, F |-> rest.F, D |-> rest.D]

\* a gate that opens as soon as one call of the batch has returned
AllDone_first_completed == \E i \in DOMAIN tasks : tasks[i].pc = "done"

\* line 340: `await asyncio.gather(...)` resumes when every call has returned
AllDone == \A i \in DOMAIN tasks : tasks[i].pc = "done"

\* lines 347-348: max of the ids the calls returned
last_message_id == MaxOf({tasks[i].message.id : i \in DOMAIN tasks})

IdsOf(messages) == [i \in DOMAIN messages |-> messages[i].id]

NoMessage == Msg(0, [media |-> FALSE, attrs |-> NoAttrs])

-----------------------------------------------------------------------------
(* The state after construction: a fresh config.yaml, no run started.      *)

CanIdle == [type |-> "photo", formats |-> [k \in {} |-> <<>>], format |-> None]

InitWith(b) ==
    /\ bound = b
    /\ faults = 0
    /\ saved = [last_read_message_id |-> 0, ids_to_retry |-> <<>>]
    /\ config = saved
    /\ FAILED_IDS = <<>>
    /\ DOWNLOADED_IDS = <<>>
    /\ last_read_message_id = 0
    /\ messages_list = <<>>
    /\ pagination_count = 0
    /\ message = NoMessage
    /\ next_id = 1
    /\ chat_top = b.first
    /\ pc = "idle"
    /\ tasks = <<>>
    /\ run = 0
    /\ all_normal = TRUE
    /\ start_cursor = 0
    /\ start_retry = {}
    /\ got_before = {}
    /\ dispatched = <<>>
    /\ writes = <<>>
    /\ cd_in = CanIdle
    /\ cd_out = "idle"

\* any chat of up to MaxId messages, over up to MaxRuns runs
Init == InitWith([first |-> 0, ids |-> MaxId, runs |-> MaxRuns, faults |-> MaxFaults])

-----------------------------------------------------------------------------
(* main and begin_import *)

\* a list that takes a new message at its head
list_append_front(l, m) == <<m>> \o l

\* line 417: messages_list.append(message)
list_append(l, m) == Append(l, m)

\* main lines 446-449 and begin_import lines 390-412: a new process loads
\* config.yaml and seeds the first batch with the retry backlog.  New
\* messages may have arrived in the chat since the last run.
main_start ==
    /\ pc \in {"idle", "crashed"}
    /\ run < bound.runs
    /\ run' = run + 1
    /\ all_normal' = (all_normal /\ pc = "idle")
    /\ \E top \in chat_top..bound.ids : chat_top' = top
    /\ config' = saved
    /\ FAILED_IDS' = <<>>
    /\ DOWNLOADED_IDS' = <<>>
    /\ last_read_message_id' = saved.last_read_message_id
    /\ next_id' = saved.last_read_message_id + 1
    /\ \E skipped \in [SeqToSet(saved.ids_to_retry) -> Profiles] :
          messages_list' = [i \in DOMAIN saved.ids_to_retry |->
                               Msg(saved.ids_to_retry[i], skipped[saved.ids_to_retry[i]])]
    /\ pagination_count' = Len(saved.ids_to_retry)
    /\ message' = NoMessage
    /\ tasks' = <<>>
    /\ pc' = "iter"
    /\ start_cursor' = saved.last_read_message_id
    /\ start_retry' = SeqToSet(saved.ids_to_retry)
    /\ dispatched' = <<>>
    /\ writes' = <<>>
    /\ UNCHANGED <<saved, got_before, faults, bound, cd_in, cd_out>>

\* lines 414-417: the iterator yields a message and the batch has room
iter_append ==
    /\ pc = "iter"
    /\ next_id <= chat_top
    /\ pagination_count # pagination_limit
    /\ \E p \in Profiles :
          /\ message' = Msg(next_id, p)
          /\ messages_list' = list_append(messages_list, Msg(next_id, p))
    /\ pagination_count' = pagination_count + 1
    /\ next_id' = next_id + 1
    /\ UNCHANGED <<saved, config, FAILED_IDS, DOWNLOADED_IDS, last_read_message_id,
                   chat_top, pc, tasks, run, all_normal, start_cursor, start_retry,
                   got_before, dispatched, writes, faults, bound, cd_in, cd_out>>

\* lines 414, 418-424: the iterator yields a message and the count has
\* reached the limit: the batch is passed to process_messages
iter_dispatch ==
    /\ pc = "iter"
    /\ next_id <= chat_top
    /\ pagination_count = pagination_limit
    /\ \E p \in Profiles : message' = Msg(next_id, p)
    /\ next_id' = next_id + 1
    /\ LET g == Gather(messages_list, 1, FAILED_IDS, DOWNLOADED_IDS)
       IN  /\ tasks' = g.ts
           /\ FAILED_IDS' = g.F
           /\ DOWNLOADED_IDS' = g.D
    /\ dispatched' = Append(dispatched, IdsOf(messages_list))
    /\ pc' = "batch"
    /\ UNCHANGED <<saved, config, last_read_message_id, messages_list,
                   pagination_count, chat_top, run, all_normal, start_cursor,
                   start_retry, got_before, writes, faults, bound, cd_in, cd_out>>

\* a new batch that starts empty
new_batch_empty(m) == <<>>

\* lines 426-427: messages_list = []; messages_list.append(message)
new_batch(m) == <<m>>

\* lines 419-429: process_messages has returned inside the loop
batch_done ==
    /\ pc = "batch"
    /\ AllDone
    /\ last_read_message_id' = last_message_id
    /\ pagination_count' = 0
    /\ messages_list' = new_batch(message)
    /\ LET c == update_config(
                  [config EXCEPT !.last_read_message_id = last_message_id],
                  FAILED_IDS, DOWNLOADED_IDS)
       IN  /\ config' = c
           /\ saved' = c
           /\ writes' = Append(writes, Written("loop", c, FAILED_IDS, DOWNLOADED_IDS))
    /\ tasks' = <<>>
    /\ pc' = "iter"
    /\ UNCHANGED <<FAILED_IDS, DOWNLOADED_IDS, message, next_id, chat_top, run,
                   all_normal, start_cursor, start_retry, got_before, dispatched,
                   faults, bound, cd_in, cd_out>>

\* lines 430-436: the iterator is exhausted and a batch remains
final_dispatch ==
    /\ pc = "iter"
    /\ next_id > chat_top
    /\ messages_list # <<>>
    /\ LET g == Gather(messages_list, 1, FAILED_IDS, DOWNLOADED_IDS)
       IN  /\ tasks' = g.ts
           /\ FAILED_IDS' = g.F
           /\ DOWNLOADED_IDS' = g.D
    /\ dispatched' = Append(dispatched, IdsOf(messages_list))
    /\ pc' = "final"
    /\ UNCHANGED <<saved, config, last_read_message_id, messages_list,
                   pagination_count, message, next_id, chat_top, run, all_normal,
                   start_cursor, start_retry, got_before, writes, faults, bound, cd_in, cd_out>>

\* lines 430, 438-440: the iterator is exhausted and no batch remains
import_return ==
    /\ pc = "iter"
    /\ next_id > chat_top
    /\ messages_list = <<>>
    /\ config' = [config EXCEPT !.last_read_message_id = last_read_message_id]
    /\ pc' = "returned"
    /\ UNCHANGED <<saved, FAILED_IDS, DOWNLOADED_IDS, last_read_message_id,
                   messages_list, pagination_count, message, next_id, chat_top,
                   tasks, run, all_normal, start_cursor, start_retry, got_before,
                   dispatched, writes, faults, bound, cd_in, cd_out>>

\* lines 431-440: process_messages has returned for the final batch
final_done ==
    /\ pc = "final"
    /\ AllDone
    /\ last_read_message_id' = last_message_id
    /\ config' = [config EXCEPT !.last_read_message_id = last_message_id]
    /\ tasks' = <<>>
    /\ pc' = "returned"
    /\ UNCHANGED <<saved, FAILED_IDS, DOWNLOADED_IDS, messages_list,
                   pagination_count, message, next_id, chat_top, run, all_normal,
                   start_cursor, start_retry, got_before, dispatched, writes,
                   faults, bound, cd_in, cd_out>>

\* main lines 451-458: the final update_config; the process exits
main_finish ==
    /\ pc = "returned"
    /\ LET c == update_config(config, FAILED_IDS, DOWNLOADED_IDS)
       IN  /\ config' = c
           /\ saved' = c
           /\ writes' = Append(writes, Written("main", c, FAILED_IDS, DOWNLOADED_IDS))
    /\ got_before' = got_before \cup (SeqToSet(DOWNLOADED_IDS) \ SeqToSet(FAILED_IDS))
    /\ pc' = "idle"
    /\ UNCHANGED <<FAILED_IDS, DOWNLOADED_IDS, last_read_message_id, messages_list,
                   pagination_count, message, next_id, chat_top, tasks, run,
                   all_normal, start_cursor, start_retry, dispatched, faults, bound, cd_in, cd_out>>

-----------------------------------------------------------------------------
(* The awaits of download_media complete, in any order *)

InFlight == pc \in {"batch", "final"}

\* anything but a file of ordinary size counts against the fault bound
IsFault(r) == ~(r.k = "path" /\ r.size >= min_size)

Resume(i, o, cost) ==
    /\ faults + cost <= bound.faults
    /\ faults' = faults + cost
    /\ tasks' = [tasks EXCEPT ![i] = o.t]
    /\ FAILED_IDS' = o.F
    /\ DOWNLOADED_IDS' = o.D
    /\ UNCHANGED <<saved, config, last_read_message_id, messages_list,
                   pagination_count, message, next_id, chat_top, pc, run,
                   all_normal, start_cursor, start_retry, got_before, dispatched,
                   writes, bound, cd_in, cd_out>>

\* line 263: client.download_media returns or raises
dm_transfer ==
    /\ InFlight
    /\ \E i \in DOMAIN tasks :
          /\ tasks[i].pc = "transfer"
          /\ \E r \in TransferResults :
                Resume(i, AfterTransfer(tasks[i], r, FAILED_IDS, DOWNLOADED_IDS),
                       IF IsFault(r) THEN 1 ELSE 0)

\* the message without its media, as get_messages returns a deleted one
Emptied(m) == [m EXCEPT !.media = FALSE, !.attrs = NoAttrs]

\* line 287: client.get_messages returns the fresh message
dm_refetch ==
    /\ InFlight
    /\ \E i \in DOMAIN tasks :
          /\ tasks[i].pc = "refetch"
          /\ \E fresh \in {tasks[i].message, Emptied(tasks[i].message)} :
                Resume(i, AfterRefetch(tasks[i], fresh, FAILED_IDS, DOWNLOADED_IDS),
                       IF fresh = tasks[i].message THEN 0 ELSE 1)

\* line 287: client.get_messages raises inside the except clause: no handler
\* of download_media catches it, gather re-raises it in process_messages,
\* and it leaves begin_import and main
dm_refetch_raises ==
    /\ InFlight
    /\ \E i \in DOMAIN tasks : tasks[i].pc = "refetch"
    /\ pc' = "crashed"
    /\ UNCHANGED <<saved, config, FAILED_IDS, DOWNLOADED_IDS, last_read_message_id,
                   messages_list, pagination_count, message, next_id, chat_top,
                   tasks, run, all_normal, start_cursor, start_retry, got_before,
                   dispatched, writes, faults, bound, cd_in, cd_out>>

\* line 295: asyncio.sleep(5) returns
dm_sleep ==
    /\ InFlight
    /\ \E i \in DOMAIN tasks :
          /\ tasks[i].pc = "sleep"
          /\ Resume(i, AfterSleep(tasks[i], FAILED_IDS, DOWNLOADED_IDS), 0)

Next ==
    \/ main_start
    \/ iter_append
    \/ iter_dispatch
    \/ batch_done
    \/ final_dispatch
    \/ import_return
    \/ final_done
    \/ main_finish
    \/ dm_transfer
    \/ dm_refetch
    \/ dm_refetch_raises
    \/ dm_sleep

Spec == Init /\ [][Next]_vars

-----------------------------------------------------------------------------
(* Scheduling: the event loop resumes begin_import when it can go on, and  *)
(* every await of a download_media call completes (it returns or raises).  *)
(* When a new run of main is started is up to the user.                    *)

Progress ==
    \/ iter_append
    \/ iter_dispatch
    \/ batch_done
    \/ final_dispatch
    \/ import_return
    \/ final_done
    \/ main_finish
    \/ dm_transfer
    \/ dm_refetch
    \/ dm_refetch_raises
    \/ dm_sleep

SpecLive == Init /\ [][Next]_vars /\ WF_vars(Progress)

-----------------------------------------------------------------------------
(* One run over a longer chat *)

InitStream ==
    InitWith([first |-> 0, ids |-> MaxStream, runs |-> 1, faults |-> StreamFaults])

SpecStream == InitStream /\ [][Next]_vars

-----------------------------------------------------------------------------
(* One run over a chat that holds a single message, with every sequence of *)
(* transfer results its download_media call can meet.  The batch is the    *)
(* final one, so the in-loop dispatch is never enabled.                    *)

InitFetch ==
    InitWith([first |-> 1, ids |-> 1, runs |-> 1,
              faults |-> Len(media_types) * MaxAttempts + 1])

NextFetch ==
    \/ main_start
    \/ iter_append
    \/ final_dispatch
    \/ final_done
    \/ main_finish
    \/ dm_transfer
    \/ dm_refetch
    \/ dm_refetch_raises
    \/ dm_sleep

SpecFetch == InitFetch /\ [][NextFetch]_vars

-----------------------------------------------------------------------------
(* _can_download as a function of its arguments *)

AllTypes == {"audio", "document", "photo", "video", "video_note", "voice"}

AllowLists ==
    { <<>>, <<"all">>, <<"mp3">>, <<"mp3", "ogg">>, <<"mp3", "all">>, <<"all", "mp3">> }

Formats == {"mp3", "ogg", "all", None}

\* file_formats dicts: an allow-list for any subset of the governed types
FormatDicts == UNION { [S -> AllowLists] : S \in SUBSET GovernedTypes }

InitCan == InitWith([first |-> 0, ids |-> 0, runs |-> 0, faults |-> 0])

can_download_call ==
    /\ cd_out = "idle"
    /\ \E t \in AllTypes, d \in FormatDicts, f \in Formats :
          /\ cd_in' = [type |-> t, formats |-> d, format |-> f]
          /\ cd_out' = _can_download(t, d, f)
    /\ UNCHANGED <<saved, config, FAILED_IDS, DOWNLOADED_IDS, last_read_message_id,
                   messages_list, pagination_count, message, next_id, chat_top, pc,
                   tasks, run, all_normal, start_cursor, start_retry, got_before,
                   dispatched, writes, faults, bound>>

NextCan == can_download_call

SpecCan == InitCan /\ [][NextCan]_vars

-----------------------------------------------------------------------------
(* update_config as a function of config["ids_to_retry"] and the two       *)
(* global lists: successive calls with no download in between              *)

\* lists of up to MaxLen message ids
IdLists == UNION { [1..n -> 1..MaxId] : n \in 0..MaxLen }

InitUpdate ==
    /\ bound = [first |-> 0, ids |-> MaxId, runs |-> 0, faults |-> 0]
    /\ faults = 0
    /\ \E r \in IdLists :
          config = [last_read_message_id |-> 0, ids_to_retry |-> r]
    /\ saved = config
    /\ FAILED_IDS \in IdLists
    /\ DOWNLOADED_IDS \in IdLists
    /\ last_read_message_id = config.last_read_message_id
    /\ messages_list = <<>>
    /\ pagination_count = 0
    /\ message = NoMessage
    /\ next_id = 1
    /\ chat_top = 0
    /\ pc = "returned"
    /\ tasks = <<>>
    /\ run = 0
    /\ all_normal = TRUE
    /\ start_cursor = config.last_read_message_id
    /\ start_retry = SeqToSet(config.ids_to_retry)
    /\ got_before = {}
    /\ dispatched = <<>>
    /\ writes = <<>>
    /\ cd_in = CanIdle
    /\ cd_out = "idle"

\* lines 53-58: one call of update_config
update_config_call ==
    /\ Len(writes) < MaxCalls
    /\ LET c == update_config(config, FAILED_IDS, DOWNLOADED_IDS)
       IN  /\ config' = c
           /\ saved' = c
           /\ writes' = Append(writes, Written("call", c, FAILED_IDS, DOWNLOADED_IDS))
    /\ UNCHANGED <<FAILED_IDS, DOWNLOADED_IDS, last_read_message_id, messages_list,
                   pagination_count, message, next_id, chat_top, pc, tasks, run,
                   all_normal, start_cursor, start_retry, got_before, dispatched,
                   faults, bound, cd_in, cd_out>>

NextUpdate == update_config_call

SpecUpdate == InitUpdate /\ [][NextUpdate]_vars

-----------------------------------------------------------------------------
(* Properties *)

Cursor(c) == c.last_read_message_id

\* C1: over runs that each completed normally, each starting from the
\* checkpoint the previous one wrote, no message that an earlier run
\* downloaded (and did not record as failed) is handed to the transfer again.
NoRedownload ==
    all_normal =>
        \A i \in DOMAIN tasks :
            tasks[i].pc = "transfer" => tasks[i].message.id \notin got_before

\* C2: every value assigned to config["last_read_message_id"], in memory and
\* as persisted, is at least the value it replaces, and a new value is the
\* maximum id of the batch that has just completed.
CursorOnlyAdvances ==
    [][ /\ Cursor(config') >= Cursor(config)
        /\ Cursor(saved') >= Cursor(saved)
        /\ Cursor(config') # Cursor(config) =>
              /\ tasks # <<>>
              /\ AllDone
              /\ Cursor(config') = last_message_id ]_vars

\* the update_config calls made inside the loop of begin_import
LoopWrites == SelectSeq(writes, LAMBDA w : w.at = "loop")

\* C3: with batch size N, an empty retry backlog and a stream of 2N + k
\* messages, 0 < k < N, begin_import returns after exactly two in-loop
\* update_config calls, at the ids of the N-th and the 2N-th message, and a
\* final batch of the remaining k messages.
BatchBoundary ==
    LET N == pagination_limit
        n == chat_top - start_cursor
    IN  (pc = "returned" /\ start_retry = {} /\ 2 * N < n /\ n < 3 * N) =>
            /\ Len(LoopWrites) = 2
            /\ LoopWrites[1].cursor = start_cursor + N
            /\ LoopWrites[2].cursor = start_cursor + 2 * N
            /\ Len(dispatched) = 3
            /\ Len(dispatched[3]) = n - 2 * N

\* C4: every batch passed to process_messages holds at most pagination_limit
\* messages, so at most that many download_media calls are in flight.
BatchWithinCap ==
    /\ \A b \in DOMAIN dispatched : Len(dispatched[b]) <= pagination_limit
    /\ Cardinality({i \in DOMAIN tasks : tasks[i].pc # "done"}) <= pagination_limit

\* C5: after every update_config call of a run, the set of ids in
\* config["ids_to_retry"] is (the retry set loaded at run start minus the ids
\* downloaded so far in the run) union (the ids failed so far in the run).
RetrySetEvolution ==
    /\ \A k \in DOMAIN writes :
          SeqToSet(writes[k].retry) = (start_retry \ writes[k].D) \cup writes[k].F
    /\ writes # <<>> =>
          /\ config.ids_to_retry = writes[Len(writes)].retry
          /\ saved.ids_to_retry = writes[Len(writes)].retry

\* C5 witness: a run that loaded a retry backlog has called update_config in
\* the loop and again in main; the first call saw a backlog id downloaded
\* and another id failed.
RetrySetEvolutionWitness ==
    /\ Len(writes) = 2
    /\ writes[1].at = "loop"
    /\ writes[2].at = "main"
    /\ start_retry # {}
    /\ writes[1].D \cap start_retry # {}
    /\ writes[1].F \ start_retry # {}
    /\ writes[2].D # writes[1].D

\* C6: a download_media call makes at most 3 attempts; if every transfer it
\* starts raises TypeError it makes exactly 3, sleeps after each and appends
\* its id to FAILED_IDS exactly once; if each of its 3 attempts ends in
\* BadRequest or TypeError it appends its id to FAILED_IDS exactly once.
RetryExhaustion ==
    \A i \in DOMAIN tasks :
        LET t == tasks[i]
        IN  /\ t.retry < MaxAttempts
            /\ (t.pc = "done" /\ t.tx > 0 /\ t.sleeps = t.tx) =>
                  (t.tx = MaxAttempts /\ t.fails = 1)
            /\ (t.pc = "done" /\ t.sleeps + t.refetches = MaxAttempts) =>
                  t.fails = 1

\* the call i receives the result of a transfer in this step
Arrives(i) == tasks[i].pc = "transfer" /\ i \in DOMAIN tasks' /\ tasks'[i] # tasks[i]

\* C7: a transfer that returns a zero-byte file has the file deleted and the
\* id appended to FAILED_IDS, the message is not attempted again in the run
\* and its id is in ids_to_retry at the next checkpoint write; a transfer
\* that returns a non-empty file of any size has the file kept and the id
\* appended to DOWNLOADED_IDS and not to FAILED_IDS.
ZeroByteRule ==
    /\ [][\A i \in DOMAIN tasks :
            LET r == tasks'[i].last
                id == tasks[i].message.id
            IN  /\ (Arrives(i) /\ r.k = "path" /\ r.size = 0) =>
                      /\ tasks'[i].file = "removed"
                      /\ FAILED_IDS' = Append(FAILED_IDS, id)
                      /\ DOWNLOADED_IDS' = DOWNLOADED_IDS
                /\ (Arrives(i) /\ r.k = "path" /\ r.size > 0) =>
                      /\ tasks'[i].file = "kept"
                      /\ DOWNLOADED_IDS' = Append(DOWNLOADED_IDS, id)
                      /\ FAILED_IDS' = FAILED_IDS
                /\ (tasks[i].zeroed /\ i \in DOMAIN tasks'
                        /\ tasks'[i].retry > tasks[i].retry) =>
                      tasks'[i].tx = tasks[i].tx ]_vars
    /\ [](\A k \in DOMAIN writes : writes[k].F \subseteq SeqToSet(writes[k].retry))

\* C8: no error met while one message is processed aborts the batch or the
\* run: the exception never leaves download_media, so process_messages
\* returns, the checkpoint is written and begin_import goes on.
ErrorsNonFatal == pc # "crashed"

\* C9: a message without media is returned by download_media on the first
\* attempt, without a transfer and without an append to either list, and its
\* id takes part in the maximum that becomes the cursor.
NoMediaSkipped ==
    /\ [](\A i \in DOMAIN tasks :
            ~messages_list[i].media =>
                /\ tasks[i].pc = "done"
                /\ tasks[i].retry = 0
                /\ tasks[i].tx = 0
                /\ tasks[i].fails = 0
                /\ tasks[i].dls = 0)
    /\ [][(tasks = <<>> /\ tasks' # <<>>) =>
            \A i \in DOMAIN tasks' :
                ~messages_list[i].media =>
                    /\ Count(FAILED_IDS', messages_list[i].id)
                          = Count(FAILED_IDS, messages_list[i].id)
                    /\ Count(DOWNLOADED_IDS', messages_list[i].id)
                          = Count(DOWNLOADED_IDS, messages_list[i].id)]_vars
    /\ [][(InFlight /\ pc' \in {"iter", "returned"}) =>
            \A i \in DOMAIN tasks :
                ~messages_list[i].media =>
                    last_read_message_id' >= messages_list[i].id]_vars

\* C9 witness: a batch has completed in which the message of the highest id
\* has no media and another message was downloaded.
NoMediaSkippedWitness ==
    /\ pc = "final"
    /\ AllDone
    /\ \E i, j \in DOMAIN tasks :
          /\ ~messages_list[i].media
          /\ messages_list[i].id = last_message_id
          /\ tasks[j].dls > 0

\* C10: _can_download returns true whatever the format when the type's
\* allow-list is ["all"] or the type has no allow-list configured, and for an
\* allow-list whose first entry is not "all" (the empty list included) it
\* returns whether the format is in the list; it never raises.
CanDownloadRule ==
    cd_out # "idle" =>
        LET t == cd_in.type
            d == cd_in.formats
            f == cd_in.format
        IN  /\ cd_out \in {"True", "False"}
            /\ (t \notin DOMAIN d \/ d[t] = <<"all">>) => cd_out = "True"
            /\ (t \in DOMAIN d /\ (d[t] = <<>> \/ d[t][1] # "all")) =>
                  (cd_out = "True" <=> f \in SeqToSet(d[t]))

\* C11: whatever the order in which the download_media calls of a batch
\* complete, the cursor is assigned and update_config is called only when
\* every call of the batch has returned: no step writes the checkpoint, or
\* changes the cursor of a running import, while a call is still in flight.
GateBeforeCheckpoint ==
    [][ (\/ saved' # saved
         \/ Len(writes') > Len(writes)
         \/ (pc \notin {"idle", "crashed"} /\ Cursor(config') # Cursor(config))
         \/ (pc \notin {"idle", "crashed"}
                /\ last_read_message_id' # last_read_message_id))
        => \A i \in DOMAIN tasks : tasks[i].pc = "done" ]_vars

\* C11 witness: the in-loop checkpoint of a batch has been written after its
\* calls completed in another order than they were started (the later
\* message was downloaded first).
GateBeforeCheckpointWitness ==
    /\ pc = "iter"
    /\ Len(writes) = 1
    /\ writes[1].at = "loop"
    /\ Len(dispatched[1]) >= 2
    /\ \E i, j \in DOMAIN DOWNLOADED_IDS :
          i < j /\ DOWNLOADED_IDS[i] > DOWNLOADED_IDS[j]

RECURSIVE Flatten(_)
\* the lists of a list of lists, concatenated
Flatten(ss) == IF ss = <<>> THEN <<>> ELSE Head(ss) \o Flatten(Tail(ss))

\* the ids dispatched so far in the run, in dispatch order
DispatchedIds == Flatten(dispatched)

\* the first batch of the run is in flight; config.yaml still holds the
\* retry backlog the run loaded
FirstBatchInFlight == InFlight /\ Len(dispatched) = 1 /\ writes = <<>>

\* C12 as stated: every retry-backlog message has reached its terminal
\* outcome before the transfer of any forward-scan message starts, and the
\* forward-scan messages are dispatched in non-decreasing id order.
RetryBeforeForward ==
    /\ FirstBatchInFlight =>
          \A i, j \in DOMAIN tasks :
              (i <= Len(saved.ids_to_retry) /\ j > Len(saved.ids_to_retry)
                  /\ tasks[j].tx > 0) => tasks[i].pc = "done"
    /\ dispatched # <<>> =>
          \E n \in 0..Len(dispatched[1]) :
              /\ {DispatchedIds[i] : i \in 1..n} = start_retry
              /\ \A i, j \in (n + 1)..Len(DispatchedIds) :
                    i < j => DispatchedIds[i] <= DispatchedIds[j]

\* C12 amended: the retry-backlog messages stand, in the order of
\* ids_to_retry, at the head of the first batch, the forward-scan messages
\* that fill it behind them, and the calls of that batch run together; over
\* the batches of the run the forward-scan ids are dispatched in ascending
\* order, each the successor of the one before, from the loaded cursor on.
RetrySeedsFirstBatch ==
    /\ FirstBatchInFlight =>
          /\ SubSeq(dispatched[1], 1, Len(saved.ids_to_retry)) = saved.ids_to_retry
          /\ \A i \in DOMAIN tasks : tasks[i].message.id = dispatched[1][i]
    /\ dispatched # <<>> =>
          \E n \in 0..Len(dispatched[1]) :
              /\ {DispatchedIds[i] : i \in 1..n} = start_retry
              /\ \A i \in (n + 1)..Len(DispatchedIds) :
                    DispatchedIds[i] = start_cursor + (i - n)

\* C12 witness: in a run that loaded a retry backlog, the first batch mixed
\* backlog and forward-scan messages, a backlog call is still at its
\* transfer while a forward-scan call has started its own.
RetrySeedsFirstBatchWitness ==
    /\ FirstBatchInFlight
    /\ saved.ids_to_retry # <<>>
    /\ \E i, j \in DOMAIN tasks :
          /\ i <= Len(saved.ids_to_retry)
          /\ j > Len(saved.ids_to_retry)
          /\ tasks[i].pc = "transfer"
          /\ tasks[j].tx > 0

\* C13: when download_media has returned for a message, the call has
\* appended the id at most once in total to DOWNLOADED_IDS and FAILED_IDS,
\* and never to both.
OneOutcome ==
    \A i \in DOMAIN tasks :
        tasks[i].pc = "done" =>
            /\ tasks[i].fails + tasks[i].dls <= 1
            /\ ~(tasks[i].fails > 0 /\ tasks[i].dls > 0)

\* C14: when update_config is called again with DOWNLOADED_IDS and
\* FAILED_IDS as the previous call found them, whatever they hold, the set
\* of ids in config["ids_to_retry"] after the call is the set after the
\* previous call.
UpdateFixedPoint ==
    \A k \in DOMAIN writes :
        (k > 1 /\ writes[k].F = writes[k - 1].F /\ writes[k].D = writes[k - 1].D) =>
            SeqToSet(writes[k].retry) = SeqToSet(writes[k - 1].retry)

\* C14 witness: update_config has been called twice on lists where an id is
\* both downloaded and failed and another queued id is neither; the second
\* call has made the list longer.
UpdateFixedPointWitness ==
    /\ Len(writes) = 2
    /\ writes[1].at = "call"
    /\ SeqToSet(FAILED_IDS) \cap SeqToSet(DOWNLOADED_IDS) # {}
    /\ start_retry \ (SeqToSet(FAILED_IDS) \cup SeqToSet(DOWNLOADED_IDS)) # {}
    /\ Len(writes[2].retry) > Len(writes[1].retry)

\* C15: every run that is started terminates: begin_import returns and main
\* exits normally; no batch is dispatched once begin_import has returned;
\* and on that exit main has written the checkpoint once more, so that the
\* persisted cursor and retry set account for the final batch.
RunTerminates ==
    /\ \A r \in 1..MaxRuns : [](run = r => <>(run = r /\ pc = "idle"))
    /\ [][pc = "returned" => dispatched' = dispatched]_vars
    /\ []((pc = "idle" /\ run > 0) =>
            /\ writes # <<>>
            /\ writes[Len(writes)].at = "main"
            /\ saved = config
            /\ Cursor(saved) = last_read_message_id
            /\ SeqToSet(saved.ids_to_retry) =
                  (start_retry \ SeqToSet(DOWNLOADED_IDS)) \cup SeqToSet(FAILED_IDS))

RetryListIsSet ==
    \A x \in SeqToSet(saved.ids_to_retry) : Count(saved.ids_to_retry, x) = 1

\* the ids begin_import has taken so far in the run, in order: those it has
\* dispatched, then those waiting in the current batch or, while a batch
\* dispatched in the loop is in flight, the message that triggered it
TakenIds ==
    CASE pc = "iter"  -> DispatchedIds \o IdsOf(messages_list)
      [] pc = "batch" -> DispatchedIds \o <<message.id>>
      [] OTHER        -> DispatchedIds

\* C18: every message the forward iterator has yielded is in exactly one
\* batch: the ids taken so far are the retry backlog followed by the yielded
\* ids start_cursor + 1 .. next_id - 1, each once and in ascending order;
\* when begin_import returns the iterator is exhausted and all of them have
\* been dispatched.
EveryMessageOnce ==
    pc \in {"iter", "batch", "final", "returned"} =>
        LET yielded == (next_id - 1) - start_cursor
            n == Len(TakenIds) - yielded
        IN  /\ n >= 0
            /\ {TakenIds[i] : i \in 1..n} = start_retry
            /\ \A i \in (n + 1)..Len(TakenIds) : TakenIds[i] = start_cursor + (i - n)
            /\ pc = "returned" =>
                  /\ next_id = chat_top + 1
                  /\ TakenIds = DispatchedIds

\* C18 witness: begin_import has returned from a run with a retry backlog
\* in which the message that arrived at a full batch opened the second
\* batch.
EveryMessageOnceWitness ==
    /\ pc = "returned"
    /\ start_retry # {}
    /\ Len(dispatched) = 2
    /\ Len(dispatched[1]) = pagination_limit
    /\ dispatched[2][1] = message.id
    /\ chat_top > start_cursor + 1

\* the message carries media of a configured kind that passes _can_download
Downloadable(m) ==
    /\ m.media
    /\ \E i \in DOMAIN media_types :
          /\ media_types[i] \in DOMAIN m.attrs
          /\ _can_download(media_types[i], file_formats,
                           _get_media_meta(m.attrs[media_types[i]], media_types[i])) = "True"

\* position i of the batch that has just completed holds a forward-scan
\* message (the retry backlog stands at the head of the first batch)
ForwardScan(i) ==
    ~(Len(dispatched) = 1 /\ writes = <<>> /\ i <= Len(saved.ids_to_retry))

\* C19: at every checkpoint write, each forward-scan message of the batch
\* just completed that has an id at or below the written cursor and carries
\* downloadable media is in DOWNLOADED_IDS or in the written ids_to_retry.
NoSilentLoss ==
    [][ Len(writes') > Len(writes) =>
          \A i \in DOMAIN messages_list :
              (/\ pc \in {"batch", "returned"}
               /\ ForwardScan(i)
               /\ Downloadable(messages_list[i])
               /\ messages_list[i].id <= Cursor(saved')) =>
                  messages_list[i].id \in
                      SeqToSet(DOWNLOADED_IDS) \cup SeqToSet(saved'.ids_to_retry) ]_vars

\* C20: no message id occurs twice in a dispatched batch, so no two calls
\* in flight transfer the same media kind of the same message id, that is,
\* to the same destination path.
BatchIdsDistinct ==
    /\ \A b \in DOMAIN dispatched :
          \A i, j \in DOMAIN dispatched[b] :
              i # j => dispatched[b][i] # dispatched[b][j]
    /\ \A i, j \in DOMAIN tasks :
          (/\ i # j
           /\ tasks[i].pc = "transfer"
           /\ tasks[j].pc = "transfer"
           /\ tasks[i].message.id = tasks[j].message.id) =>
              tasks[i].ti # tasks[j].ti

====
